---------------------------- MODULE Spec2Model ----------------------------
(***************************************************************************)
(* Model of website_scraper.py: the WebsiteScraper extractors (regular     *)
(* expressions over the raw page text), scrape_website, and the main loop  *)
(* with its report and JSON persistence.                                   *)
(*                                                                         *)
(* Page text is a TLA+ string; a regular expression is a sequence of nodes *)
(* matched by a backtracking matcher that lists the possible match ends in *)
(* the priority order of Python's re module (greedy first).                *)
(***************************************************************************)
EXTENDS Integers, Sequences, FiniteSets, TLC

VARIABLES
    pc,          \* position of main(): input, loop, sleep, scrape, display, save, done, crashed
    websites,    \* main: the list of targets
    idx,         \* main: enumerate index of the current target (1-based), 0 before the loop
    results,     \* main: the accumulated records
    sleeps,      \* number of time.sleep(scraper.delay) calls made so far
    fetches,     \* number of requests.get calls made so far
    responses,   \* what each requests.get call so far came to, in call order
    raised,      \* None, or Some(exception) once an exception has left main()
    clock,       \* datetime.now(), a logical clock
    shown,       \* display_results: number of records reported so far
    save_calls,  \* number of save_results_to_json calls so far
    file,        \* website_details.json: None or Some(list of records)
    content,     \* extractor harness: the content string handed to an extractor
    fn,          \* extractor harness: which extractor has been applied
    out          \* extractor harness: what the extractor returned

vars == <<pc, websites, idx, results, sleeps, fetches, responses, raised, clock,
          shown, save_calls, file, content, fn, out>>

mainVars == <<pc, websites, idx, results, sleeps, fetches, responses, raised, clock,
              shown, save_calls, file>>
harnessVars == <<content, fn, out>>

----------------------------------------------------------------------------
(* Python values *)

None == <<>>
Some(v) == <<v>>

----------------------------------------------------------------------------
(* Characters and strings *)

Char(s, i) == SubSeq(s, i, i)

\* The printable ASCII characters in code-point order (the grave accent, which
\* a TLA+ string cannot hold, is left out).
Printable ==
    " !\"#$%&'()*+,-./0123456789:;<=>?@ABCDEFGHIJKLMNOPQRSTUVWXYZ[\\]^_abcdefghijklmnopqrstuvwxyz{|}~"

CharsOf(s) == {Char(s, i) : i \in 1..Len(s)}

AnyChar == CharsOf(Printable)
LowerCase == CharsOf("abcdefghijklmnopqrstuvwxyz")
UpperCase == CharsOf("ABCDEFGHIJKLMNOPQRSTUVWXYZ")
Digit == CharsOf("0123456789")
Letter == LowerCase \cup UpperCase
AlNum == Letter \cup Digit
Space == {" "}

\* The rank of c in code-point order: Ord(c) < Ord(d) iff ord(c) < ord(d)
Ord(c) == CHOOSE i \in 1..Len(Printable) : Char(Printable, i) = c

\* str.lower() on one character
LowerChar(c) ==
    IF c \in UpperCase
    THEN Char("abcdefghijklmnopqrstuvwxyz",
              CHOOSE i \in 1..26 : Char("ABCDEFGHIJKLMNOPQRSTUVWXYZ", i) = c)
    ELSE c

RECURSIVE lower(_)
lower(s) == IF s = "" THEN "" ELSE LowerChar(Char(s, 1)) \o lower(SubSeq(s, 2, Len(s)))

\* str.startswith
startswith(s, p) == Len(s) >= Len(p) /\ SubSeq(s, 1, Len(p)) = p

\* Python's substring test, sub in s
Contains(s, sub) ==
    \E i \in 1..(Len(s) - Len(sub) + 1) : SubSeq(s, i, i + Len(sub) - 1) = sub

\* str.strip() (whitespace is the space character here)
RECURSIVE strip(_)
strip(s) ==
    IF s = "" THEN ""
    ELSE IF Char(s, 1) \in Space THEN strip(SubSeq(s, 2, Len(s)))
    ELSE IF Char(s, Len(s)) \in Space THEN strip(SubSeq(s, 1, Len(s) - 1))
    ELSE s

\* Python's < on str: lexicographic by code point
RECURSIVE StrLess(_, _)
StrLess(a, b) ==
    IF b = "" THEN FALSE
    ELSE IF a = "" THEN TRUE
    ELSE IF Char(a, 1) = Char(b, 1)
         THEN StrLess(SubSeq(a, 2, Len(a)), SubSeq(b, 2, Len(b)))
         ELSE Ord(Char(a, 1)) < Ord(Char(b, 1))

\* sorted(list(S)) for a set of strings
RECURSIVE sorted(_)
sorted(S) ==
    IF S = {} THEN <<>>
    ELSE LET m == CHOOSE x \in S : \A y \in S \ {x} : StrLess(x, y)
         IN  <<m>> \o sorted(S \ {m})

\* set(xs) for a list
ToSet(xs) == {xs[i] : i \in 1..Len(xs)}

----------------------------------------------------------------------------
(* Regular expressions, as re matches them.                                *)
(*   Lit(w)          the literal text w                                    *)
(*   Rep(cls, m, n)  cls{m,n}, greedy; n = Unbounded for no upper limit    *)
(*   Opt(p)          (?:p)?, greedy: p, else nothing                       *)
(*   Alt(p, q)       (?:p|q): p, else q                                    *)
(* A pattern is a sequence of nodes.                                       *)

Unbounded == 0 - 1

Lit(w) == [t |-> "lit", w |-> w]
Rep(cls, m, n) == [t |-> "rep", cls |-> cls, min |-> m, max |-> n]
Opt(p) == [t |-> "alt", alts |-> <<p, <<>>>>]
Alt(p, q) == [t |-> "alt", alts |-> <<p, q>>]

\* The length of the longest run of cls characters of s starting at i, at most
\* n of them (any number when n = Unbounded).
RunLen(s, i, cls, n) ==
    LET last == IF n = Unbounded \/ i + n - 1 > Len(s) THEN Len(s) ELSE i + n - 1
        stop == CHOOSE j \in i..(last + 1) :
                    /\ j = last + 1 \/ Char(s, j) \notin cls
                    /\ \A k \in i..(j - 1) : Char(s, k) \in cls
    IN  stop - i

Max(S) == CHOOSE x \in S : \A y \in S : x >= y
Min(S) == CHOOSE x \in S : \A y \in S : x <= y

\* The end of the match the backtracking matcher of re finds for pattern p at
\* position i of s (the position after its last character), 0 when p does not
\* match at i. A greedy repetition takes the longest run for which the rest of
\* the pattern still matches; a group tries its branches left to right, each
\* followed by the rest of the pattern.
RECURSIVE MatchAt(_, _, _)
MatchAt(p, s, i) ==
    IF p = <<>> THEN i
    ELSE LET nd == Head(p)
             rest == Tail(p)
         IN  CASE nd.t = "lit" ->
                    IF i + Len(nd.w) - 1 <= Len(s) /\ SubSeq(s, i, i + Len(nd.w) - 1) = nd.w
                    THEN MatchAt(rest, s, i + Len(nd.w)) ELSE 0
               [] nd.t = "rep" ->
                    LET run == RunLen(s, i, nd.cls, nd.max)
                        ok == {k \in nd.min..run : MatchAt(rest, s, i + k) # 0}
                    IN  IF ok = {} THEN 0 ELSE MatchAt(rest, s, i + Max(ok))
               [] nd.t = "alt" ->
                    LET first == MatchAt(nd.alts[1] \o rest, s, i)
                    IN  IF first # 0 THEN first ELSE MatchAt(nd.alts[2] \o rest, s, i)

\* The positions of s at which p matches
MatchStarts(p, s) == {i \in 1..Len(s) : MatchAt(p, s, i) # 0}

\* re.findall(p, s): the non-overlapping matches, left to right; the scan
\* resumes where the previous match ended
RECURSIVE findall_from(_, _, _, _)
findall_from(p, s, starts, i) ==
    LET later == {j \in starts : j >= i}
    IN  IF later = {} THEN <<>>
        ELSE LET b == Min(later)
                 e == MatchAt(p, s, b)
             IN  <<SubSeq(s, b, e - 1)>> \o findall_from(p, s, starts, e)

findall(p, s) == findall_from(p, s, MatchStarts(p, s), 1)

\* re.search(p, s): None, or Some(match.group(0)) of the leftmost match
search(p, s) ==
    LET starts == MatchStarts(p, s)
    IN  IF starts = {} THEN None
        ELSE LET b == Min(starts) IN Some(SubSeq(s, b, MatchAt(p, s, b) - 1))

----------------------------------------------------------------------------
(* WebsiteScraper: the extractors *)

\* r'[a-zA-Z0-9._%+-]+@[a-zA-Z0-9.-]+\.[a-zA-Z]{2,}'
email_pattern ==
    << Rep(AlNum \cup CharsOf("._%+-"), 1, Unbounded), Lit("@"),
       Rep(AlNum \cup CharsOf(".-"), 1, Unbounded), Lit("."),
       Rep(Letter, 2, Unbounded) >>

\* The substrings that make extract_emails drop an address.
email_blocklist == {"example.com", "test.com", "sample.com"}

\* A filter that keeps the matches as written, without lower-casing them.
email_filter_keepcase(emails) ==
    SelectSeq(emails, LAMBDA e : ~ \E x \in email_blocklist : Contains(lower(e), x))

\* The list comprehension of extract_emails: the lower-cased matches that hold
\* no blocklist entry as a substring, in match order.
RECURSIVE email_filter(_)
email_filter(emails) ==
    IF emails = <<>> THEN <<>>
    ELSE LET e == Head(emails)
         IN  (IF \E x \in email_blocklist : Contains(lower(e), x)
              THEN <<>> ELSE <<lower(e)>>) \o email_filter(Tail(emails))

extract_emails(c) == sorted(ToSet(email_filter(findall(email_pattern, c))))

\* phone_patterns[0..2]
phone_pattern_intl ==
    << Opt(<<Lit("+")>>), Rep(Digit \ {"0"}, 1, 1), Rep(Digit, 1, 14) >>
phone_pattern_paren ==
    << Lit("("), Rep(Digit, 3, 3), Lit(")"), Rep(Space, 0, 1), Rep(Digit, 3, 3),
       Rep(CharsOf("-.") \cup Space, 0, 1), Rep(Digit, 4, 4) >>
phone_pattern_dash ==
    << Rep(Digit, 3, 3), Rep(CharsOf("-.") \cup Space, 0, 1), Rep(Digit, 3, 3),
       Rep(CharsOf("-.") \cup Space, 0, 1), Rep(Digit, 4, 4) >>

\* len(re.sub(r'\D', '', p))
DigitCount(p) == Cardinality({i \in 1..Len(p) : Char(p, i) \in Digit})

extract_phone_numbers(c) ==
    LET phones == findall(phone_pattern_intl, c) \o findall(phone_pattern_paren, c)
                  \o findall(phone_pattern_dash, c)
    IN  sorted({p \in ToSet(phones) : DigitCount(p) >= 10})

\* https?://(?:www\.)?<host>/
UrlHead(host) == << Lit("http"), Opt(<<Lit("s")>>), Lit("://"), Opt(<<Lit("www.")>>), Lit(host) >>

NotQuote == AnyChar \ {"\""}
Slug == AlNum \cup {"-"}

\* linkedin_patterns[0], linkedin_patterns[1]
linkedin_company_pattern ==
    UrlHead("linkedin.com/company/") \o << Rep(Slug, 1, Unbounded), Opt(<<Lit("/")>>) >>
linkedin_personal_pattern ==
    UrlHead("linkedin.com/in/") \o << Rep(Slug, 1, Unbounded), Opt(<<Lit("/")>>) >>

\* The same patterns in the other order.
linkedin_patterns_swapped == << linkedin_personal_pattern, linkedin_company_pattern >>

\* The patterns in the order the loop tries them.
linkedin_patterns == << linkedin_company_pattern, linkedin_personal_pattern >>

RECURSIVE first_search(_, _)
first_search(patterns, c) ==
    IF patterns = <<>> THEN None
    ELSE LET m == search(Head(patterns), c)
         IN  IF m # None THEN m ELSE first_search(Tail(patterns), c)

extract_linkedin_url(c) == first_search(linkedin_patterns, c)

platforms == {"linkedin", "twitter", "facebook", "instagram", "youtube", "github"}

\* social_patterns[platform]
social_patterns(platform) ==
    IF platform = "linkedin"
    THEN << Alt(UrlHead("linkedin.com/")
                \o << Alt(<<Lit("company")>>, <<Lit("in")>>), Lit("/"),
                      Rep(NotQuote, 1, Unbounded) >>,
                << Rep(NotQuote, 1, Unbounded) >>) >>
    ELSE UrlHead(platform \o ".com/") \o << Rep(NotQuote, 1, Unbounded) >>

\* The social_links dict: platform -> match.group(0), for the platforms that match
extract_social_links(c) ==
    LET found == {p \in platforms : search(social_patterns(p), c) # None}
    IN  [p \in found |-> search(social_patterns(p), c)[1]]

----------------------------------------------------------------------------
(* The pages a site may answer with, and what BeautifulSoup(html,           *)
(* 'html.parser') makes of each: the text of the first <title>, the         *)
(* attributes of the <meta name=...> tags by name, and                      *)
(* get_text(separator=' ') of the first div/section whose class matches     *)
(* contact|footer (ignoring case).                                          *)

PageFull ==
    [ html    |-> "<title> Acme </title><meta name=\"description\" content=\"We build\"><div class=\"footer-contact\">help@acme.io<b>555-123-4567</b></div>sales@acme.io",
      title   |-> Some(" Acme "),
      meta    |-> [n \in {"description"} |-> [name |-> "description", content |-> "We build"]],
      contact |-> Some("help@acme.io 555-123-4567") ]

PageNoDescription ==
    [ html    |-> "<title>Beta</title><section class=\"Contact\">no mail</section><a href=\"https://linkedin.com/in/jdoe\">",
      title   |-> Some("Beta"),
      meta    |-> << >>,
      contact |-> Some("no mail") ]

PageBareMeta ==
    [ html    |-> "<meta name=\"description\"><meta name=\"keywords\" content=\" a,b \">joe@example.com",
      title   |-> None,
      meta    |-> [n \in {"description", "keywords"} |->
                     IF n = "description" THEN [name |-> "description"]
                     ELSE [name |-> "keywords", content |-> " a,b "]],
      contact |-> None ]

PageEmpty == [ html |-> "", title |-> None, meta |-> << >>, contact |-> None ]

Pages == {PageFull, PageNoDescription, PageBareMeta, PageEmpty}

BeautifulSoup(c) == CHOOSE p \in Pages : p.html = c

\* soup.find('meta', attrs={'name': n})
find_meta(soup, n) == IF n \in DOMAIN soup.meta THEN Some(soup.meta[n]) ELSE None

\* tag.get(key, default)
tag_get(tag, key, default) == IF key \in DOMAIN tag THEN tag[key] ELSE default

extract_contact_info(c) ==
    LET contact_section == BeautifulSoup(c).contact
        emails == extract_emails(contact_section[1])
        phones == extract_phone_numbers(contact_section[1])
    IN  [ email   |-> IF contact_section # None /\ emails # <<>> THEN Some(emails) ELSE None,
          phone   |-> IF contact_section # None /\ phones # <<>> THEN Some(phones) ELSE None,
          address |-> None ]

extract_meta_info(c, url) ==
    LET soup == BeautifulSoup(c)
        desc_tag == find_meta(soup, "description")
        keywords_tag == find_meta(soup, "keywords")
    IN  [ title       |-> IF soup.title # None THEN Some(strip(soup.title[1])) ELSE None,
          description |-> IF desc_tag # None
                          THEN Some(strip(tag_get(desc_tag[1], "content", ""))) ELSE None,
          keywords    |-> IF keywords_tag # None
                          THEN Some(strip(tag_get(keywords_tag[1], "content", ""))) ELSE None ]

----------------------------------------------------------------------------
(* WebsiteScraper: fetch_website and scrape_website *)

\* How a call ends: it returns a value or raises an exception.
Return(v) == [raised |-> FALSE, value |-> v]
Raise(e) == [raised |-> TRUE, value |-> e]

\* What requests.get(url) followed by raise_for_status() comes to: a 2xx
\* response with a body, or an exception of the requests.exceptions hierarchy
\* (HTTPError, raised for a non-2xx status, is a RequestException that is
\* neither a Timeout nor a ConnectionError).
Response(text) == [kind |-> "ok", text |-> text]
Failure(exc) == [kind |-> exc]
RequestExceptions == {"Timeout", "ConnectionError", "HTTPError", "MissingSchema"}

\* The "Normalize URL" step of fetch_website and of scrape_website
normalize(url) == IF ~ startswith(url, "http") THEN "https://" \o url ELSE url

\* requests sends a request only for http://host or https://host; for any
\* other URL requests.get raises MissingSchema, InvalidSchema or InvalidURL
\* (RequestExceptions all) before anything is sent.
HasScheme(url) == startswith(url, "http://") \/ startswith(url, "https://")
Sendable(url) ==
    \/ startswith(url, "http://") /\ Len(url) > Len("http://")
    \/ startswith(url, "https://") /\ Len(url) > Len("https://")

\* Except clauses without the final RequestException one.
fetch_caught_narrow == {"Timeout", "ConnectionError"}

\* The exceptions the except clauses of fetch_website catch: Timeout,
\* ConnectionError, and RequestException, the base class of them all.
fetch_caught == RequestExceptions

\* fetch_website: returns response.text, or None when the request raised
fetch_website(url, resp) ==
    IF resp.kind = "ok" THEN Return(Some(resp.text))
    ELSE IF resp.kind \in fetch_caught THEN Return(None)
    ELSE Raise(resp.kind)

\* Python's truth test, not content, for content: Optional[str]
not_content(c) == c = None \/ c[1] = ""

\* scrape_website(website_name), given what the request comes to, at time now
scrape_website(website_name, resp, now) ==
    LET url == normalize(website_name)
        fetched == fetch_website(url, resp)
        c == fetched.value
    IN  IF fetched.raised THEN fetched
        ELSE IF not_content(c)
        THEN Return([ website   |-> website_name,
                      url       |-> url,
                      status    |-> "failed",
                      error     |-> "Failed to fetch " \o website_name,
                      timestamp |-> now ])
        ELSE Return([ website       |-> website_name,
                      url           |-> url,
                      status        |-> "success",
                      timestamp     |-> now,
                      emails        |-> extract_emails(c[1]),
                      phone_numbers |-> extract_phone_numbers(c[1]),
                      linkedin      |-> extract_linkedin_url(c[1]),
                      social_media  |-> extract_social_links(c[1]),
                      contact_info  |-> extract_contact_info(c[1]),
                      meta_info     |-> extract_meta_info(c[1], url) ])

\* The URL requests.get is called with: scrape_website normalises the target
\* and fetch_website normalises what it is handed once more.
requested_url(website_name) == normalize(normalize(website_name))

----------------------------------------------------------------------------
(* main() *)

\* user_input.split(',')
RECURSIVE split_from(_, _, _)
split_from(s, i, start) ==
    IF i > Len(s) THEN <<SubSeq(s, start, Len(s))>>
    ELSE IF Char(s, i) = "," THEN <<SubSeq(s, start, i - 1)>> \o split_from(s, i + 1, i + 1)
    ELSE split_from(s, i + 1, start)

split(s) == split_from(s, 1, 1)

default_websites == <<"facebook.com", "flipkart.com">>

\* The websites list main() builds from the line read by input()
parse_input(line) ==
    LET user_input == strip(line)
        sites == split(user_input)
    IN  IF user_input = "" THEN default_websites
        ELSE [i \in 1..Len(sites) |-> strip(sites[i])]

\* A delay before every request, the first included.
needs_delay_always(i) == i > 0

\* if idx > 1: the loop sleeps before the request
needs_delay(i) == i > 1

\* A result list that keeps the newest record first.
append_front(rs, r) == <<r>> \o rs

\* results.append(result)
append(rs, r) == Append(rs, r)

\* The lines the user may type: nothing, or up to MaxTargets entries separated
\* by commas.
MaxTargets == 2
Entries == {"a.com", " https://c.io ", "httpbin.org"}

RECURSIVE Lines(_)
Lines(n) ==
    IF n = 1 THEN Entries
    ELSE Lines(n - 1) \cup {l \o "," \o e : l \in Lines(n - 1), e \in Entries}

Init ==
    /\ pc = "input"
    /\ websites = <<>>
    /\ idx = 0
    /\ results = <<>>
    /\ sleeps = 0
    /\ fetches = 0
    /\ responses = <<>>
    /\ raised = None
    /\ clock = 0
    /\ shown = 0
    /\ save_calls = 0
    /\ file = None
    /\ content = ""
    /\ fn = "idle"
    /\ out = None

\* user_input = input(...).strip(); websites = ...; results = []
ReadInput ==
    /\ pc = "input"
    /\ \E line \in Lines(MaxTargets) \cup {""} : websites' = parse_input(line)
    /\ results' = <<>>
    /\ pc' = "loop"
    /\ UNCHANGED <<idx, sleeps, fetches, responses, raised, clock, shown, save_calls, file>>
    /\ UNCHANGED harnessVars

\* for idx, website in enumerate(websites, 1): the next target, or the end of
\* the loop; display_results(results) starts when the list is exhausted
LoopNext ==
    /\ pc = "loop"
    /\ IF idx < Len(websites)
       THEN /\ idx' = idx + 1
            /\ pc' = IF needs_delay(idx + 1) THEN "sleep" ELSE "scrape"
       ELSE /\ pc' = "display"
            /\ idx' = idx
    /\ UNCHANGED <<websites, results, sleeps, fetches, responses, raised, clock, shown,
                   save_calls, file>>
    /\ UNCHANGED harnessVars

\* time.sleep(scraper.delay)
Sleep ==
    /\ pc = "sleep"
    /\ sleeps' = sleeps + 1
    /\ pc' = "scrape"
    /\ UNCHANGED <<websites, idx, results, fetches, responses, raised, clock, shown,
                   save_calls, file>>
    /\ UNCHANGED harnessVars

\* What the request for url may come to: requests refuses a URL it cannot
\* send; any other request is answered with a 2xx response carrying a page,
\* times out, fails to connect, or is answered with a non-2xx status, for
\* which raise_for_status() raises HTTPError.
Outcomes(url) ==
    IF Sendable(url)
    THEN {Response(p.html) : p \in Pages}
         \cup {Failure("Timeout"), Failure("ConnectionError"), Failure("HTTPError")}
    ELSE {Failure("MissingSchema")}

\* result = scraper.scrape_website(website); results.append(result)
Scrape ==
    /\ pc = "scrape"
    /\ \E resp \in Outcomes(requested_url(websites[idx])) :
         /\ LET call == scrape_website(websites[idx], resp, clock)
            IN  IF call.raised
                THEN /\ raised' = Some(call.value)
                     /\ pc' = "crashed"
                     /\ results' = results
                ELSE /\ results' = append(results, call.value)
                     /\ pc' = "loop"
                     /\ raised' = raised
         /\ responses' = Append(responses, resp)
    /\ fetches' = fetches + 1
    /\ clock' = clock + 1
    /\ UNCHANGED <<websites, idx, sleeps, shown, save_calls, file>>
    /\ UNCHANGED harnessVars

\* display_results: one iteration of its loop, for a failed record
DisplayFailed ==
    /\ pc = "display"
    /\ shown < Len(results)
    /\ results[shown + 1].status = "failed"
    /\ shown' = shown + 1
    /\ UNCHANGED <<pc, websites, idx, results, sleeps, fetches, responses, raised, clock,
                   save_calls, file>>
    /\ UNCHANGED harnessVars

\* display_results: one iteration for a success record;
\* result['meta_info'].get('description', 'N/A')[:100] subscripts the value
\* stored under 'description', and None[:100] raises TypeError
DisplaySuccess ==
    /\ pc = "display"
    /\ shown < Len(results)
    /\ results[shown + 1].status # "failed"
    /\ IF results[shown + 1].meta_info.description = None
       THEN /\ raised' = Some("TypeError")
            /\ pc' = "crashed"
            /\ shown' = shown
       ELSE /\ shown' = shown + 1
            /\ UNCHANGED <<pc, raised>>
    /\ UNCHANGED <<websites, idx, results, sleeps, fetches, responses, clock,
                   save_calls, file>>
    /\ UNCHANGED harnessVars

\* display_results returns
DisplayDone ==
    /\ pc = "display"
    /\ shown = Len(results)
    /\ pc' = "save"
    /\ UNCHANGED <<websites, idx, results, sleeps, fetches, responses, raised, clock,
                   shown, save_calls, file>>
    /\ UNCHANGED harnessVars

\* save_results_to_json(results): the file is written
SaveWritten ==
    /\ pc = "save"
    /\ save_calls' = save_calls + 1
    /\ file' = Some(results)
    /\ pc' = "done"
    /\ UNCHANGED <<websites, idx, results, sleeps, fetches, responses, raised, clock, shown>>
    /\ UNCHANGED harnessVars

\* save_results_to_json(results): open() raises IOError, which is caught
SaveIOError ==
    /\ pc = "save"
    /\ save_calls' = save_calls + 1
    /\ file' = file
    /\ pc' = "done"
    /\ UNCHANGED <<websites, idx, results, sleeps, fetches, responses, raised, clock, shown>>
    /\ UNCHANGED harnessVars

Next ==
    \/ ReadInput
    \/ LoopNext
    \/ Sleep
    \/ Scrape
    \/ DisplayFailed
    \/ DisplaySuccess
    \/ DisplayDone
    \/ SaveWritten
    \/ SaveIOError

Spec == Init /\ [][Next]_vars

----------------------------------------------------------------------------
(* The extractors on their own: an extractor is applied to a content string *)
(* put together from up to MaxFragments pieces of page text.                *)

MaxFragments == 2
Fragments ==
    { "Bob@Acme.io ", "bob@acme.io,al@a.co ", "joe@example.com", "amy@contest.com ",
      "test.com@corp.net ", "\"", "hello ",
      "https://www.linkedin.com/company/acme/ ", "https://linkedin.com/in/jdoe\"",
      "http://twitter.com/acme\"" }

RECURSIVE Contents(_)
Contents(n) ==
    IF n = 0 THEN {""}
    ELSE Contents(n - 1) \cup {c \o f : c \in Contents(n - 1), f \in Fragments}

InitExtract ==
    /\ pc = "extract"
    /\ websites = <<>>
    /\ idx = 0
    /\ results = <<>>
    /\ sleeps = 0
    /\ fetches = 0
    /\ responses = <<>>
    /\ raised = None
    /\ clock = 0
    /\ shown = 0
    /\ save_calls = 0
    /\ file = None
    /\ content \in Contents(MaxFragments)
    /\ fn = "idle"
    /\ out = None

ApplyEmails ==
    /\ fn = "idle"
    /\ fn' = "extract_emails"
    /\ out' = extract_emails(content)
    /\ UNCHANGED content
    /\ UNCHANGED mainVars

ApplyLinkedin ==
    /\ fn = "idle"
    /\ fn' = "extract_linkedin_url"
    /\ out' = extract_linkedin_url(content)
    /\ UNCHANGED content
    /\ UNCHANGED mainVars

ApplySocial ==
    /\ fn = "idle"
    /\ fn' = "extract_social_links"
    /\ out' = extract_social_links(content)
    /\ UNCHANGED content
    /\ UNCHANGED mainVars

NextExtract ==
    \/ ApplyEmails
    \/ ApplyLinkedin
    \/ ApplySocial

SpecExtract == InitExtract /\ [][NextExtract]_vars

----------------------------------------------------------------------------
(* Properties of main() and scrape_website, under Spec *)

ExtractionFields ==
    {"emails", "phone_numbers", "linkedin", "social_media", "contact_info", "meta_info"}

LoopOver == pc \in {"display", "save", "done", "crashed"}

\* C1: the result list holds one record per target processed so far, in input
\* order (results[i].website = websites[i]); once the loop is over it holds
\* exactly one record per target, whatever each request came to, so a failed
\* target never keeps the later ones from being processed.
Thm_C1 ==
    /\ Len(results) <= Len(websites)
    /\ \A i \in 1..Len(results) : results[i].website = websites[i]
    /\ pc = "loop" => Len(results) = idx
    /\ pc \in {"sleep", "scrape"} => Len(results) = idx - 1
    /\ LoopOver => Len(results) = Len(websites)

\* C1 witness: the run is over, the first of two different targets failed
\* with a non-2xx status and the second one was scraped all the same.
Wit_C1 ==
    /\ pc = "done"
    /\ Len(websites) = 2
    /\ websites[1] # websites[2]
    /\ responses[1].kind = "HTTPError"
    /\ results[1].status = "failed"
    /\ results[2].status = "success"

\* C2: whenever a request fails (timeout, connection error, any other request
\* error, a non-2xx status included) no exception leaves scrape_website or the
\* loop of main(), and the record made for that target has status 'failed', a
\* non-empty error message and none of the six extraction fields.
Thm_C2 ==
    /\ \A e \in RequestExceptions : raised # Some(e)
    /\ pc \in {"loop", "sleep", "scrape"} => raised = None
    /\ Len(responses) = Len(results)
    /\ \A i \in 1..Len(results) :
         responses[i].kind # "ok" =>
           /\ results[i].status = "failed"
           /\ results[i].error # ""
           /\ DOMAIN results[i] \cap ExtractionFields = {}

\* C2 witness: a request timed out and another was refused with a non-2xx
\* status; both targets have failed records and main() ran to its end.
Wit_C2 ==
    /\ pc = "done"
    /\ Len(results) = 2
    /\ responses[1].kind = "Timeout"
    /\ responses[2].kind = "HTTPError"
    /\ results[1].status = "failed"
    /\ results[2].status = "failed"

\* C3: every request answered with a 2xx response, whatever its body (an empty
\* body included), yields a record with status 'success' that carries the six
\* extraction fields; a 'failed' record is made only when the request failed.
CE_C3 ==
    \A i \in 1..Len(results) :
       /\ responses[i].kind = "ok" =>
            /\ results[i].status = "success"
            /\ ExtractionFields \subseteq DOMAIN results[i]
       /\ results[i].status = "failed" => responses[i].kind # "ok"

\* C4: for n targets the delay is taken n-1 times: never before the first
\* request, once before each later request, after the previous target's
\* request has been made and its record appended, and never after the last.
Thm_C4 ==
    /\ pc = "input" => sleeps = 0 /\ fetches = 0
    /\ pc = "sleep" =>
         idx >= 2 /\ sleeps = idx - 2 /\ fetches = idx - 1 /\ Len(results) = idx - 1
    /\ pc = "scrape" =>
         sleeps = idx - 1 /\ fetches = idx - 1 /\ Len(results) = idx - 1
    /\ pc = "loop" =>
         sleeps = (IF idx = 0 THEN 0 ELSE idx - 1) /\ fetches = idx /\ Len(results) = idx
    /\ LoopOver => sleeps = Len(websites) - 1 /\ fetches = Len(websites)

\* C4 witness: the second request is about to be made, after one delay and
\* with the first target's record in the list.
Wit_C4 ==
    /\ pc = "scrape"
    /\ idx = 2
    /\ sleeps = 1
    /\ fetches = 1
    /\ Len(results) = 1

\* C5: every run of main() that ends has reported every record and has called
\* save_results_to_json, whatever the records are, success records whose meta
\* title, description or keywords are None included.
CE_C5 ==
    pc \in {"done", "crashed"} => shown = Len(results) /\ save_calls = 1

\* C9: the URL of every record is the target itself when the target carries a
\* scheme (http:// or https://) and 'https://' + target otherwise, so it
\* always begins with a scheme; normalising it again leaves it unchanged.
CE_C9 ==
    \A i \in 1..Len(results) :
       LET target == results[i].website
           url == results[i].url
       IN  /\ url = (IF HasScheme(target) THEN target ELSE "https://" \o target)
           /\ HasScheme(url)
           /\ normalize(url) = url

----------------------------------------------------------------------------
(* Properties of the extractors, under SpecExtract *)

\* The part of an address after its '@'
DomainOf(e) == SubSeq(e, Min({i \in 1..Len(e) : Char(e, i) = "@"}) + 1, Len(e))

endswith(s, p) == Len(s) >= Len(p) /\ SubSeq(s, Len(s) - Len(p) + 1, Len(s)) = p

\* d is a blocklisted domain or a subdomain of one
BlockedDomain(d) == \E b \in email_blocklist : d = b \/ endswith(d, "." \o b)

\* C6: the list extract_emails returns has no two entries equal ignoring case,
\* no entry with a blocklisted domain, and is in ascending lexicographic order.
Thm_C6 ==
    fn = "extract_emails" =>
       /\ \A i, j \in 1..Len(out) : i # j => lower(out[i]) # lower(out[j])
       /\ \A i \in 1..Len(out) : ~ BlockedDomain(DomainOf(lower(out[i])))
       /\ \A i \in 1..(Len(out) - 1) : StrLess(out[i], out[i + 1])

\* C6 witness: content with an address written in two cases and a third one
\* that sorts before them; the result lists two addresses.
Wit_C6 ==
    /\ fn = "extract_emails"
    /\ content = "Bob@Acme.io bob@acme.io,al@a.co "
    /\ out = <<"al@a.co", "bob@acme.io">>

\* C7: extract_emails drops an address only for its domain: the result is
\* exactly the lower-cased matches whose domain, the part after '@', is no
\* blocklisted domain and no subdomain of one.
CE_C7 ==
    fn = "extract_emails" =>
       LET matches == ToSet(findall(email_pattern, content))
       IN  ToSet(out) = {lower(e) : e \in {m \in matches : ~ BlockedDomain(DomainOf(lower(m)))}}

\* A URL of a platform: https?://(?:www\.)?<platform>.com/ and what follows, up
\* to the next double quote
platform_url(p) == UrlHead(p \o ".com/") \o << Rep(NotQuote, 1, Unbounded) >>

\* C8: extract_social_links has a platform's key if and only if the content
\* holds a URL of that platform, and the value is the first such URL; so the
\* value under 'linkedin' is a linkedin.com URL and content without social
\* URLs yields an empty mapping.
CE_C8 ==
    fn = "extract_social_links" =>
       \A p \in platforms :
          LET u == search(platform_url(p), content)
          IN  /\ p \in DOMAIN out <=> u # None
              /\ p \in DOMAIN out => out[p] = u[1]

\* C10: extract_linkedin_url returns the first company URL whenever the
\* content holds one, even after a personal (/in/) URL; the first personal URL
\* only when there is no company URL; None only when there is neither.
Thm_C10 ==
    fn = "extract_linkedin_url" =>
       LET company == search(linkedin_company_pattern, content)
           personal == search(linkedin_personal_pattern, content)
       IN  /\ company # None => out = company
           /\ company = None /\ personal # None => out = personal
           /\ out = None <=> company = None /\ personal = None

\* C10 witness: a personal URL comes first in the content, a company URL
\* follows, and the company URL is what was returned.
Wit_C10 ==
    /\ fn = "extract_linkedin_url"
    /\ content = "https://linkedin.com/in/jdoe\"https://www.linkedin.com/company/acme/ "
    /\ out = Some("https://www.linkedin.com/company/acme/")

=============================================================================
